---- MODULE Spec2Model ----
(***************************************************************************)
(* Model of the Slack-GitHub bridge (src/server.ts): an Express server     *)
(* with a body parser, an API-key gate and three function handlers that    *)
(* call the messaging provider (Slack conversations.history) and the file  *)
(* store (GitHub contents API).                                            *)
(*                                                                         *)
(* One action models one run of handler code between two awaits: Receive   *)
(* is the middleware chain and the handler up to its first outbound call,  *)
(* SlackRespond / LookupRespond / WriteRespond are the completion of that  *)
(* call and the handler code up to the next call or the response.          *)
(***************************************************************************)
EXTENDS Integers, Sequences, FiniteSets, TLC

VARIABLES env, defaultBranch, files, req, slackData, markdownContent

vars == <<env, defaultBranch, files, req, slackData, markdownContent>>

(***************************************************************************)
(* Bounds                                                                  *)
(***************************************************************************)
\* most messages in one provider page, in the request specifications
MaxPage == 2
\* most messages in one provider page, in the rendering specification
MaxLen == 3

(***************************************************************************)
(* Values                                                                  *)
(***************************************************************************)
\* the value of MCP_API_KEY when it is set
Secret == "secret"

\* JavaScript's undefined: an unset environment variable, an absent header,
\* an absent body field
Undefined == "undefined"

Branches == {"main", "dev"}

Endpoints == {"health", "functions", "get_slack_messages", "save_to_github",
              "slack_to_github_context"}

\* a file's content: a text sent to save_to_github or a rendered document
NoFile == [kind |-> "none", text |-> "", entries |-> <<>>]
TextFile(s) == [kind |-> "text", text |-> s, entries |-> <<>>]
DocFile(entries) == [kind |-> "doc", text |-> "", entries |-> entries]

\* the store's version token of a content (GitHub's blob sha: a hash of the
\* content, so equal contents have equal tokens); NoSha is "no token"
BlobSha(c) == [of |-> c]
NoSha == BlobSha(NoFile)

\* the provider's native order: newest first
NewestFirst(n) ==
    [i \in 1..n |-> [ts |-> n + 1 - i, user |-> "U1", username |-> Undefined]]

Reverse(s) == [i \in 1..Len(s) |-> s[Len(s) + 1 - i]]

(***************************************************************************)
(* Responses of this server                                                *)
(***************************************************************************)
NoResponse ==
    [status |-> 0, json |-> FALSE, error |-> Undefined, success |-> FALSE,
     retrieved |-> -1, saved |-> -1]

\* res.status(s).json({ error: msg })
ErrorResponse(s, msg) ==
    [status |-> s, json |-> TRUE, error |-> msg, success |-> FALSE,
     retrieved |-> -1, saved |-> -1]

\* res.json({ ... }) of /health and /functions
PlainResponse ==
    [status |-> 200, json |-> TRUE, error |-> Undefined, success |-> FALSE,
     retrieved |-> -1, saved |-> -1]

\* res.json({ success: true, ... }); n is count / messages_saved when given
SuccessResponse(n) ==
    [status |-> 200, json |-> TRUE, error |-> Undefined, success |-> TRUE,
     retrieved |-> -1, saved |-> n]

\* the framework's default error handler after express.json() fails: the
\* parser's status with an HTML page, not a JSON body
ParseFailureResponse ==
    [status |-> 400, json |-> FALSE, error |-> Undefined, success |-> FALSE,
     retrieved |-> -1, saved |-> -1]

(***************************************************************************)
(* Responses of the upstream services, as the handler sees them            *)
(***************************************************************************)
NoSlackRes == [kind |-> "none", status |-> 0, messages |-> <<>>]
NoLookupRes == [kind |-> "none", status |-> 0, sha |-> NoSha]
NoWriteRes == [kind |-> "none", status |-> 0]

\* kind "ok": { ok: true, messages }; "notok": { ok: false, error: "X" } with
\* the HTTP status the provider chose; "throw": fetch or response.json() threw
SlackOutcomes(pages) ==
    {[kind |-> "ok", status |-> 200, messages |-> p] : p \in pages}
    \cup {[kind |-> "notok", status |-> s, messages |-> <<>>] : s \in {200, 429}}
    \cup {[kind |-> "throw", status |-> 0, messages |-> <<>>]}

(***************************************************************************)
(* Requests                                                                *)
(***************************************************************************)
NoInput ==
    [ep |-> "none", apiKey |-> Undefined, bodyOk |-> TRUE, channel |-> Undefined,
     path |-> Undefined, content |-> Undefined, branch |-> Undefined]

\* one request: pc is the await the handler is suspended at; inp, the three
\* upstream answers and res are what went in and out; calls logs the
\* outbound calls; messages and sha are the handler's locals. History only:
\* committed (the store accepted this request's write), writtenOver (the
\* token of the file on the written branch when the store processed the
\* write), raced (another request's write to that branch was accepted
\* between this request's lookup and the answer to its write)
Idle ==
    [pc |-> "idle", inp |-> NoInput, entered |-> FALSE, calls |-> <<>>,
     messages |-> <<>>, sha |-> NoSha, slackRes |-> NoSlackRes,
     lookupRes |-> NoLookupRes, writeRes |-> NoWriteRes, res |-> NoResponse,
     committed |-> FALSE, raced |-> FALSE, writtenOver |-> NoSha]

KeyValues == {Secret, "wrong", Undefined}
FieldValues == {Undefined, "", "C1"}
PathValues == {Undefined, "", "ctx.md"}
ContentValues == {Undefined, "", "A", "B"}
BranchValues == {Undefined} \cup Branches

\* every request the specification Spec sends
Inputs ==
    {[ep |-> e, apiKey |-> k, bodyOk |-> b, channel |-> Undefined,
      path |-> Undefined, content |-> Undefined, branch |-> Undefined] :
        e \in {"health", "functions"}, k \in KeyValues, b \in BOOLEAN}
    \cup
    {[ep |-> "get_slack_messages", apiKey |-> k, bodyOk |-> b, channel |-> c,
      path |-> Undefined, content |-> Undefined, branch |-> Undefined] :
        k \in KeyValues, b \in BOOLEAN, c \in FieldValues}
    \cup
    {[ep |-> "save_to_github", apiKey |-> k, bodyOk |-> b, channel |-> Undefined,
      path |-> p, content |-> c, branch |-> br] :
        k \in KeyValues, b \in BOOLEAN, p \in PathValues, c \in ContentValues,
        br \in BranchValues}
    \cup
    {[ep |-> "slack_to_github_context", apiKey |-> k, bodyOk |-> b, channel |-> c,
      path |-> p, content |-> Undefined, branch |-> Undefined] :
        k \in KeyValues, b \in BOOLEAN, c \in FieldValues, p \in PathValues}

(***************************************************************************)
(* Handler code                                                            *)
(***************************************************************************)
\* !v for a string or undefined
Falsy(v) == v = Undefined \/ v = ""

\* 2xx: fetch's response.ok
Ok(status) == status >= 200 /\ status <= 299

\* the authentication middleware lets the request through
AuthOk(inp, e) == inp.ep = "health" \/ inp.apiKey = e.MCP_API_KEY

MissingRequiredPathOnly(inp) ==
    CASE inp.ep = "get_slack_messages" -> Falsy(inp.channel)
      [] inp.ep = "save_to_github" -> Falsy(inp.path)
      [] inp.ep = "slack_to_github_context" ->
            Falsy(inp.channel) \/ Falsy(inp.path)
      [] OTHER -> FALSE

\* the handler's check of its required body fields
MissingRequired(inp) ==
    CASE inp.ep = "get_slack_messages" -> Falsy(inp.channel)
      [] inp.ep = "save_to_github" -> Falsy(inp.path) \/ Falsy(inp.content)
      [] inp.ep = "slack_to_github_context" ->
            Falsy(inp.channel) \/ Falsy(inp.path)
      [] OTHER -> FALSE

SlackConfigured(e) == ~Falsy(e.SLACK_BOT_TOKEN)

GithubConfigured(e) ==
    ~Falsy(e.GITHUB_TOKEN) /\ ~Falsy(e.GITHUB_OWNER) /\ ~Falsy(e.GITHUB_REPO)

\* const { ..., branch = 'main' } = req.body
Branch(inp) == IF inp.branch = Undefined THEN "main" ELSE inp.branch

\* the ?ref= of the lookup call; Undefined when the URL carries none
LookupRef(inp) ==
    IF inp.ep = "save_to_github" THEN Branch(inp) ELSE Undefined

\* body.branch of the write call
WriteBranch(inp) ==
    IF inp.ep = "save_to_github" THEN Branch(inp) ELSE "main"

\* msg.user || msg.username || 'Unknown'
Author(msg) ==
    IF ~Falsy(msg.user) THEN msg.user
    ELSE IF ~Falsy(msg.username) THEN msg.username
    ELSE "Unknown"

RenderDocumentUnreversed(messages) ==
    DocFile([i \in 1..Len(messages) |->
                [user |-> Author(messages[i]), ts |-> messages[i].ts]])

\* the markdown document: one entry per message of messages.reverse(), top
\* to bottom (the generation time in the header is left out, the message
\* text is carried verbatim)
RenderDocument(messages) ==
    DocFile([i \in 1..Len(messages) |->
                [user |-> Author(Reverse(messages)[i]),
                 ts |-> Reverse(messages)[i].ts]])

ShaFromLookupNever(lr) == NoSha

\* let sha; if (checkResponse.ok) { sha = (await checkResponse.json()).sha }
\* inside try/catch: set only by a readable 2xx answer
ShaFromLookup(lr) == IF lr.kind = "found" THEN lr.sha ELSE NoSha

\* an outbound call, as logged: ref is the lookup's ?ref= or the write's
\* body.branch; sha is body.sha (NoSha: the field is omitted); content is
\* the decoded body.content
Call(api, ref, sha, content) ==
    [api |-> api, ref |-> ref, sha |-> sha, content |-> content]

IssueTwice(calls, call) == calls \o <<call, call>>

\* await fetch(...): one call goes out
Issue(calls, call) == Append(calls, call)

Done(q, response) == [q EXCEPT !.pc = "done", !.res = response]

\* step 3 of the composite handler, and the tail of save_to_github's
\* prefix: the store's configuration check, then the lookup call
StartLookup(q, e) ==
    IF ~GithubConfigured(e)
    THEN Done(q, ErrorResponse(500, "GitHub credentials not configured"))
    ELSE [q EXCEPT !.pc = "lookup",
                   !.calls = Issue(q.calls,
                                   Call("lookup", LookupRef(q.inp), NoSha, NoFile))]

StartSlack(q, e) ==
    IF ~SlackConfigured(e)
    THEN Done(q, ErrorResponse(500, "SLACK_BOT_TOKEN not configured"))
    ELSE [q EXCEPT !.pc = "slack",
                   !.calls = Issue(q.calls,
                                   Call("slack", Undefined, NoSha, NoFile))]

\* the route handler, from its entry to its first await
Handle(q, e) ==
    CASE q.inp.ep \in {"health", "functions"} -> Done(q, PlainResponse)
      [] OTHER ->
            IF MissingRequired(q.inp)
            THEN Done(q, ErrorResponse(400, "parameter is required"))
            ELSE IF q.inp.ep = "save_to_github" THEN StartLookup(q, e)
            ELSE StartSlack(q, e)

\* express.json(), the authentication middleware, then the route
Received(inp, e) ==
    LET q == [Idle EXCEPT !.inp = inp] IN
    IF ~inp.bodyOk THEN Done(q, ParseFailureResponse)
    ELSE IF ~AuthOk(inp, e) THEN Done(q, ErrorResponse(401, "Unauthorized"))
    ELSE Handle([q EXCEPT !.entered = TRUE], e)

SlackFailureForwardsStatus(sr) ==
    IF sr.kind = "notok" THEN ErrorResponse(sr.status, "X")
    ELSE ErrorResponse(500, "fetch failed")

\* if (!data.ok) return res.status(400)...; catch: res.status(500)
SlackFailure(sr) ==
    IF sr.kind = "notok" THEN ErrorResponse(400, "X")
    ELSE ErrorResponse(500, "fetch failed")

AfterSlackContinues(q, sr, e) ==
    LET q1 == [q EXCEPT !.slackRes = sr] IN
    IF sr.kind # "ok" /\ q.inp.ep = "get_slack_messages"
    THEN Done(q1, SlackFailure(sr))
    ELSE IF q.inp.ep = "get_slack_messages"
    THEN Done(q1, SuccessResponse(Len(sr.messages)))
    ELSE StartLookup([q1 EXCEPT !.messages = sr.messages], e)

\* the handler after the provider's answer
AfterSlack(q, sr, e) ==
    LET q1 == [q EXCEPT !.slackRes = sr] IN
    IF sr.kind # "ok" THEN Done(q1, SlackFailure(sr))
    ELSE IF q.inp.ep = "get_slack_messages"
    THEN Done(q1, SuccessResponse(Len(sr.messages)))
    ELSE StartLookup([q1 EXCEPT !.messages = sr.messages], e)

\* body.content: the text of the request, or the rendered document
WriteContent(q) ==
    IF q.inp.ep = "save_to_github" THEN TextFile(q.inp.content)
    ELSE RenderDocument(q.messages)

\* the handler after the lookup's answer: keep the token, issue the write
AfterLookup(q, lr) ==
    LET sha == ShaFromLookup(lr) IN
    [q EXCEPT !.lookupRes = lr, !.sha = sha, !.pc = "write",
              !.calls = Issue(q.calls,
                              Call("write", WriteBranch(q.inp), sha,
                                   WriteContent(q)))]

WriteResponseHidesRejection(inp, wr, n) ==
    IF wr.kind \in {"unavailable", "throw"}
    THEN ErrorResponse(500, "fetch failed")
    ELSE SuccessResponse(IF inp.ep = "slack_to_github_context" THEN n ELSE -1)

\* const data = await response.json(); if (!response.ok) ...; res.json(...)
\* and the catch around it; n is messages.length
WriteResponse(inp, wr, n) ==
    IF wr.kind \in {"unavailable", "throw"}
    THEN ErrorResponse(500, "fetch failed")
    ELSE IF ~Ok(wr.status)
    THEN [ErrorResponse(wr.status, "store message") EXCEPT
            !.retrieved = IF inp.ep = "slack_to_github_context" THEN n ELSE -1]
    ELSE SuccessResponse(IF inp.ep = "slack_to_github_context" THEN n ELSE -1)

AfterWrite(q, wr, done) ==
    Done([q EXCEPT !.writeRes = wr, !.committed = done],
         WriteResponse(q.inp, wr, Len(q.messages)))

(***************************************************************************)
(* The file store                                                          *)
(***************************************************************************)
\* GET contents: the file of the branch named by ref, of the repository's
\* default branch when the URL names none
LookupBranch(call) == IF call.ref = Undefined THEN defaultBranch ELSE call.ref

\* the store's answers to a lookup: its own, or a failure
StoreLookup(call, kind) ==
    LET cur == files[LookupBranch(call)] IN
    CASE kind = "store" ->
            IF cur # NoFile
            THEN [kind |-> "found", status |-> 200, sha |-> BlobSha(cur)]
            ELSE [kind |-> "notfound", status |-> 404, sha |-> NoSha]
      [] kind = "unreadable" -> [kind |-> "unreadable", status |-> 200, sha |-> NoSha]
      [] kind = "error" -> [kind |-> "error", status |-> 403, sha |-> NoSha]
      [] OTHER -> [kind |-> "throw", status |-> 0, sha |-> NoSha]

\* PUT contents: a create needs no token, an update needs the current one
StoreAccepts(call) ==
    IF files[call.ref] = NoFile THEN call.sha = NoSha
    ELSE call.sha = BlobSha(files[call.ref])

StoreWriteStatus(call) ==
    IF StoreAccepts(call)
    THEN (IF files[call.ref] = NoFile THEN 201 ELSE 200)
    ELSE (IF call.sha = NoSha \/ files[call.ref] = NoFile THEN 422 ELSE 409)

(***************************************************************************)
(* Actions                                                                 *)
(***************************************************************************)
\* a request arrives: body parser, authentication middleware, route handler
\* up to its first outbound call (cors() only adds headers to the GET and
\* POST requests modelled here)
Receive(r, inp) ==
    /\ req[r].pc = "idle"
    /\ req' = [req EXCEPT ![r] = Received(inp, env)]
    /\ UNCHANGED <<env, defaultBranch, files, slackData, markdownContent>>

\* the provider answers conversations.history
SlackRespond(r, sr) ==
    /\ req[r].pc = "slack"
    /\ req' = [req EXCEPT ![r] = AfterSlack(req[r], sr, env)]
    /\ UNCHANGED <<env, defaultBranch, files, slackData, markdownContent>>

\* the store answers the lookup (GET contents), or the call fails
LookupRespond(r, kind) ==
    /\ req[r].pc = "lookup"
    /\ req' = [req EXCEPT ![r] =
                 AfterLookup(req[r],
                             StoreLookup(req[r].calls[Len(req[r].calls)], kind))]
    /\ UNCHANGED <<env, defaultBranch, files, slackData, markdownContent>>

\* the store answers the write (PUT contents): kind "store" is its own
\* answer, accepted or rejected, with a JSON body; "lost" is the same, but
\* the answer never arrives; "unavailable" is a 503 with an HTML body;
\* "throw" is a transport failure before the store saw the call
WriteRespond(r, kind) ==
    /\ req[r].pc = "write"
    /\ LET call == req[r].calls[Len(req[r].calls)]
           accepted == kind \in {"store", "lost"} /\ StoreAccepts(call)
           wr == CASE kind = "store" ->
                        [kind |-> IF accepted THEN "accepted" ELSE "rejected",
                         status |-> StoreWriteStatus(call)]
                   [] kind = "unavailable" ->
                        [kind |-> "unavailable", status |-> 503]
                   [] OTHER -> [kind |-> "throw", status |-> 0]
           over == IF kind \in {"store", "lost"} THEN BlobSha(files[call.ref])
                   ELSE NoSha
       IN /\ files' = IF accepted THEN [files EXCEPT ![call.ref] = call.content]
                      ELSE files
          /\ req' = [o \in DOMAIN req |->
                       IF o = r
                       THEN [AfterWrite(req[r], wr, accepted) EXCEPT
                               !.writtenOver = over]
                       ELSE IF /\ accepted
                               /\ req[o].pc = "write"
                               /\ req[o].calls[Len(req[o].calls)].ref = call.ref
                       THEN [req[o] EXCEPT !.raced = TRUE]
                       ELSE req[o]]
    /\ UNCHANGED <<env, defaultBranch, slackData, markdownContent>>

\* the rendering step of slack_to_github_context on its own
Render ==
    /\ markdownContent = NoFile
    /\ markdownContent' = RenderDocument(slackData)
    /\ UNCHANGED <<env, defaultBranch, files, req, slackData>>

(***************************************************************************)
(* Specifications                                                          *)
(***************************************************************************)
EnvConfigs ==
    [MCP_API_KEY : {Secret, Undefined}, SLACK_BOT_TOKEN : {"xoxb", Undefined},
     GITHUB_TOKEN : {"ghp", Undefined}, GITHUB_OWNER : {"owner", Undefined},
     GITHUB_REPO : {"repo", Undefined}]

FullEnv ==
    [MCP_API_KEY |-> Secret, SLACK_BOT_TOKEN |-> "xoxb", GITHUB_TOKEN |-> "ghp",
     GITHUB_OWNER |-> "owner", GITHUB_REPO |-> "repo"]

\* the pages the provider returns in the request specifications
Pages == {NewestFirst(n) : n \in 0..MaxPage}

LookupKinds == {"store", "unreadable", "error", "throw"}
WriteKinds == {"store", "lost", "unavailable", "throw"}

\* one request at a time, any configuration, any request
Init ==
    /\ env \in EnvConfigs
    /\ defaultBranch \in Branches
    /\ files \in [Branches -> {NoFile, TextFile("A")}]
    /\ req = [r \in {1} |-> Idle]
    /\ slackData = <<>>
    /\ markdownContent = NoFile

Arrive == \E r \in DOMAIN req, inp \in Inputs : Receive(r, inp)

SlackAnswer ==
    \E r \in DOMAIN req, sr \in SlackOutcomes(Pages) : SlackRespond(r, sr)

LookupAnswer == \E r \in DOMAIN req, kind \in LookupKinds : LookupRespond(r, kind)

WriteAnswer == \E r \in DOMAIN req, kind \in WriteKinds : WriteRespond(r, kind)

Next == Arrive \/ SlackAnswer \/ LookupAnswer \/ WriteAnswer

Spec == Init /\ [][Next]_vars

\* two concurrent requests that write the same path, fully configured
WriterInputs ==
    {[ep |-> "save_to_github", apiKey |-> Secret, bodyOk |-> TRUE,
      channel |-> Undefined, path |-> "ctx.md", content |-> c, branch |-> br] :
        c \in {"A", "B"}, br \in BranchValues}
    \cup
    {[ep |-> "slack_to_github_context", apiKey |-> Secret, bodyOk |-> TRUE,
      channel |-> "C1", path |-> "ctx.md", content |-> Undefined,
      branch |-> Undefined]}

InitConc ==
    /\ env = FullEnv
    /\ defaultBranch \in Branches
    /\ files \in [Branches -> {NoFile, TextFile("A")}]
    /\ req = [r \in {1, 2} |-> Idle]
    /\ slackData = <<>>
    /\ markdownContent = NoFile

ArriveWriter == \E r \in DOMAIN req, inp \in WriterInputs : Receive(r, inp)

NextConc == ArriveWriter \/ SlackAnswer \/ LookupAnswer \/ WriteAnswer

SpecConc == InitConc /\ [][NextConc]_vars

\* the rendering step over every page of at most MaxLen messages
Messages ==
    [ts : 1..MaxLen, user : {Undefined, "U1"}, username : {Undefined, "bot"}]

RenderPages == UNION {[1..n -> Messages] : n \in 0..MaxLen}

InitRender ==
    /\ env = FullEnv
    /\ defaultBranch = "main"
    /\ files = [b \in Branches |-> NoFile]
    /\ req = [r \in {} |-> Idle]
    /\ slackData \in RenderPages
    /\ markdownContent = NoFile

NextRender == Render

SpecRender == InitRender /\ [][NextRender]_vars

(***************************************************************************)
(* Properties                                                              *)
(***************************************************************************)
Apis(q) == [i \in 1..Len(q.calls) |-> q.calls[i].api]

IsPrefix(s, t) == Len(s) <= Len(t) /\ \A i \in 1..Len(s) : s[i] = t[i]

WriteCalls(q) == {i \in 1..Len(q.calls) : q.calls[i].api = "write"}

Composite(q) == q.inp.ep = "slack_to_github_context"

\* C1: a request to a path other than /health whose x-api-key header is
\* absent or differs from the configured secret is answered 401
\* {error:"Unauthorized"}, no handler is entered and no outbound call is made
\* (stated here for the requests whose body parsed, which reach the gate)
C1_UnauthorizedBeforeHandler ==
    \A r \in DOMAIN req :
        LET q == req[r] IN
        (/\ q.pc # "idle"
         /\ q.inp.bodyOk
         /\ q.inp.ep # "health"
         /\ (q.inp.apiKey = Undefined \/ q.inp.apiKey # env.MCP_API_KEY))
        => /\ q.res = ErrorResponse(401, "Unauthorized")
           /\ ~q.entered
           /\ q.calls = <<>>

\* C2: an authenticated get_slack_messages request without a channel, and an
\* authenticated save_to_github request without a path or without content,
\* end with status 400 and no outbound call, whatever credentials are set
C2_ValidationRejectsWithoutCalls ==
    \A r \in DOMAIN req :
        LET q == req[r] IN
        (/\ q.pc # "idle"
         /\ q.inp.bodyOk
         /\ q.inp.apiKey = env.MCP_API_KEY
         /\ \/ /\ q.inp.ep = "get_slack_messages"
               /\ q.inp.channel \in {Undefined, ""}
            \/ /\ q.inp.ep = "save_to_github"
               /\ (q.inp.path \in {Undefined, ""} \/ q.inp.content \in {Undefined, ""}))
        => /\ q.pc = "done"
           /\ q.res.status = 400
           /\ q.calls = <<>>

\* a save_to_github request with a path and empty content was rejected while
\* the store's credentials are not configured
C2_Witness ==
    \E r \in DOMAIN req :
        /\ req[r].pc = "done"
        /\ req[r].inp.ep = "save_to_github"
        /\ req[r].inp.apiKey = env.MCP_API_KEY
        /\ req[r].inp.bodyOk
        /\ req[r].inp.path = "ctx.md"
        /\ req[r].inp.content = ""
        /\ env.GITHUB_TOKEN = Undefined
        /\ req[r].res.status = 400

C4_PartialFailureReported ==
    \A r \in DOMAIN req :
        LET q == req[r] IN
        (/\ Composite(q)
         /\ q.slackRes.kind = "ok"
         /\ q.writeRes.kind # "none"
         /\ q.writeRes.status # 0
         /\ ~Ok(q.writeRes.status))
        => /\ ~Ok(q.res.status)
           /\ q.res.error # Undefined
           /\ q.res.retrieved = Len(q.slackRes.messages)
           /\ ~q.committed

Ascending(entries) ==
    \A i, j \in 1..Len(entries) : i < j => entries[i].ts <= entries[j].ts

Descending(messages) ==
    \A i, j \in 1..Len(messages) : i < j => messages[i].ts >= messages[j].ts

Rendered == markdownContent # NoFile

\* C5: the rendered document presents the messages in ascending timestamp
\* order, top to bottom, for every sequence the provider returns, each
\* message exactly once
C5_AscendingForEverySequence ==
    Rendered =>
        /\ Len(markdownContent.entries) = Len(slackData)
        /\ Ascending(markdownContent.entries)

\* C5 as amended: the document presents the messages in the reverse of the
\* order the provider returned them, each exactly once; it is ascending
\* when the provider's order is newest-first
C5_ReverseOfProviderOrder ==
    Rendered =>
        /\ Len(markdownContent.entries) = Len(slackData)
        /\ \A i \in 1..Len(slackData) :
              /\ markdownContent.entries[i].ts = slackData[Len(slackData) + 1 - i].ts
              /\ markdownContent.entries[i].user
                    \in {slackData[Len(slackData) + 1 - i].user,
                         slackData[Len(slackData) + 1 - i].username, "Unknown"}
        /\ Descending(slackData) => Ascending(markdownContent.entries)

\* the page with timestamps [3,1,2] was rendered in the order [2,1,3]
C5_Witness ==
    /\ Rendered
    /\ Len(slackData) = 3
    /\ <<slackData[1].ts, slackData[2].ts, slackData[3].ts>> = <<3, 1, 2>>
    /\ <<markdownContent.entries[1].ts, markdownContent.entries[2].ts,
         markdownContent.entries[3].ts>> = <<2, 1, 3>>

Failed(q) == q.pc = "done" /\ ~Ok(q.res.status)

AuthFailed(q) == q.inp.ep # "health" /\ q.inp.apiKey # env.MCP_API_KEY

MissingField(q) ==
    \/ q.inp.ep \in {"get_slack_messages", "slack_to_github_context"}
          /\ q.inp.channel \in {Undefined, ""}
    \/ q.inp.ep \in {"save_to_github", "slack_to_github_context"}
          /\ q.inp.path \in {Undefined, ""}
    \/ q.inp.ep = "save_to_github" /\ q.inp.content \in {Undefined, ""}

\* the status the upstream reported to the last call, 500 when it gave none
UpstreamStatus(q) ==
    IF q.writeRes.kind # "none"
    THEN (IF q.writeRes.status # 0 THEN q.writeRes.status ELSE 500)
    ELSE (IF q.slackRes.status # 0 THEN q.slackRes.status ELSE 500)

StoreAnswered(q) == q.writeRes.kind \in {"accepted", "rejected"}

NoRetry(q) ==
    /\ Cardinality(WriteCalls(q)) <= 1
    /\ Cardinality({i \in 1..Len(q.calls) : q.calls[i].api = "lookup"}) <= 1

\* C7: when another request's write to the same file is accepted between
\* this request's lookup and its write, this request's write is rejected,
\* the request makes no second lookup or write and answers with the store's
\* status and message; no accepted write replaces a file version other than
\* the one its own lookup observed
C7_RacedWriteRejected ==
    \A r \in DOMAIN req :
        LET q == req[r] IN
        /\ NoRetry(q)
        /\ (q.raced /\ StoreAnswered(q)) =>
              /\ q.writeRes.kind = "rejected"
              /\ q.pc = "done"
              /\ q.res.status = q.writeRes.status
              /\ q.res.error # Undefined
        /\ q.committed => q.writtenOver = q.lookupRes.sha

\* C7 as amended: the store rejects this request's write whenever the token
\* of the file on the written branch then differs from the token this
\* request's lookup returned; a write raced by another accepted write is
\* therefore rejected unless the file's token is again the one the lookup
\* returned (the token is a hash of the content). A request whose write is
\* rejected makes no second lookup or write and answers with the store's
\* status and message; no accepted write replaces a file whose token is not
\* the one its own lookup returned
C7_StaleTokenRejected ==
    \A r \in DOMAIN req :
        LET q == req[r] IN
        /\ NoRetry(q)
        /\ (StoreAnswered(q) /\ q.writtenOver # q.lookupRes.sha) =>
              q.writeRes.kind = "rejected"
        /\ q.writeRes.kind = "rejected" =>
              /\ q.pc = "done"
              /\ ~q.committed
              /\ q.res.status = q.writeRes.status
              /\ q.res.error # Undefined
        /\ q.committed => q.writtenOver = q.lookupRes.sha

\* a write raced by the other request's accepted write was rejected 409
C7_Witness ==
    \E r \in DOMAIN req :
        /\ req[r].raced
        /\ req[r].writeRes.kind = "rejected"
        /\ req[r].writeRes.status = 409
        /\ req[r].res.status = 409
        /\ \E o \in DOMAIN req : o # r /\ req[o].committed

\* C8: the lookup of a request reads the branch its write call targets
C8_LookupOnWrittenBranch ==
    \A r \in DOMAIN req :
        \A i \in WriteCalls(req[r]) :
            /\ i > 1
            /\ req[r].calls[i - 1].api = "lookup"
            /\ LookupBranch(req[r].calls[i - 1]) = req[r].calls[i].ref
            /\ req[r].calls[i].ref =
                  IF req[r].inp.ep = "save_to_github"
                  THEN (IF req[r].inp.branch = Undefined THEN "main"
                        ELSE req[r].inp.branch)
                  ELSE "main"

\* C9: a slack_to_github_context request issues the fetch, the lookup and
\* the write at most once each, in that order, each after the answer to the
\* one before; a failed validation, a failed fetch or a rejected write ends
\* the request, and after a failed fetch no lookup or write is issued
C9_LinearNoRetry ==
    \A r \in DOMAIN req :
        LET q == req[r] IN
        Composite(q) =>
            /\ IsPrefix(Apis(q), <<"slack", "lookup", "write">>)
            /\ Len(q.calls) >= 2 => q.slackRes.kind = "ok"
            /\ Len(q.calls) >= 3 => q.lookupRes.kind # "none"
            /\ q.pc = "slack" => Len(q.calls) = 1 /\ q.slackRes.kind = "none"
            /\ q.pc = "lookup" => Len(q.calls) = 2 /\ q.lookupRes.kind = "none"
            /\ q.pc = "write" => Len(q.calls) = 3 /\ q.writeRes.kind = "none"
            /\ (q.pc # "idle" /\ q.inp.bodyOk /\ MissingField(q)) =>
                  q.pc = "done" /\ q.calls = <<>>
            /\ q.slackRes.kind \in {"notok", "throw"} =>
                  q.pc = "done" /\ Len(q.calls) = 1
            /\ q.writeRes.kind = "rejected" => q.pc = "done" /\ Len(q.calls) = 3

\* a slack_to_github_context request ended after a fetch that failed
C9_Witness ==
    \E r \in DOMAIN req :
        /\ Composite(req[r])
        /\ req[r].slackRes.kind = "throw"
        /\ req[r].pc = "done"
        /\ Apis(req[r]) = <<"slack">>

\* C10: no request issues more than two outbound calls
C10_AtMostTwoCalls == \A r \in DOMAIN req : Len(req[r].calls) <= 2

\* C10 as amended: a request issues at most one outbound call in
\* get_slack_messages, two in save_to_github and three in
\* slack_to_github_context
C10_CallsPerEndpoint ==
    \A r \in DOMAIN req :
        Len(req[r].calls) <=
            CASE req[r].inp.ep = "get_slack_messages" -> 1
              [] req[r].inp.ep = "save_to_github" -> 2
              [] req[r].inp.ep = "slack_to_github_context" -> 3
              [] OTHER -> 0

\* a slack_to_github_context request has issued its third call
C10_Witness ==
    \E r \in DOMAIN req :
        Composite(req[r]) /\ Apis(req[r]) = <<"slack", "lookup", "write">>

====
